---- MODULE Spec2Model ----
(***************************************************************************)
(* Model of the prerollvalve element (src/src/prerollvalve.rs): the        *)
(* chain function sink_chain, the event function sink_event, the two       *)
(* mutexes `settings` and `state`, the backlog queue, and the property     *)
(* accessors set_property / property.                                      *)
(*                                                                         *)
(* Streaming threads (Producers) run sink_chain; one controller thread     *)
(* runs set_property / property.  Every lock acquisition and every         *)
(* downstream push is a step of its own, so that other threads can be      *)
(* scheduled between them.  Positions in the queue are 1-based here (the   *)
(* source's index i is position i + 1).                                    *)
(***************************************************************************)
EXTENDS Integers, Sequences, FiniteSets, TLC

\* ------------------------------------------------------------------ bounds
\* Total number of buffers delivered to the sink pad in one run.
MaxFrames == 3
\* Total number of property accesses (set_property or property) in one run.
MaxControl == 2
\* Clock ticks per millisecond: the resolution of the model's ClockTime
\* (the source's ClockTime counts nanoseconds).
MSECOND == 1000
\* Width in bits of the model's u64: of ClockTime and of the max-history
\* property.
ClockBits == 24
\* Total number of events delivered to the sink pad in one run.
MaxEvents == 1

\* --------------------------------------------------------------- constants
DEFAULT_OPEN == FALSE
DEFAULT_MAX_HISTORY == 5000
DEFAULT_DEBUG == FALSE

\* Streaming threads that may call the chain function, and the one used when
\* upstream is a single producer.
Producers == {"p1", "p2"}
SingleProducer == "p1"
Controller == "ctl"
Free == "free"
\* A mutex whose guard was dropped by a panicking thread: lock() returns Err
\* from then on, and lock().unwrap() panics.
Poisoned == "poisoned"

\* An Option<ClockTime> is the empty sequence (None) or <<t>> (Some(t)).
None == << >>
Some(x) == <<x>>
ZERO == 0

\* The buffers upstream may deliver: without timestamps, with a dts only, and
\* with a pts one tick later than its dts; each as a keyframe or a delta unit.
Buffers ==
    {[pts |-> x[1], dts |-> x[2], delta |-> k] :
        x \in {<<None, None>>, <<None, Some(MSECOND)>>,
                <<Some(MSECOND + 1), Some(MSECOND)>>},
        k \in BOOLEAN}
\* The same without timestamps, for the runs that are about the threads.
PlainBuffers == {b \in Buffers : b.pts = None /\ b.dts = None}
\* Values the controller writes to max-history (milliseconds).
MaxHistoryValues == {0, 1}
\* The number of values of a u64, and the smallest max-history whose number
\* of clock ticks is not one of them.
ClockRange == 2 ^ ClockBits
OverflowMs == (ClockRange - 1) \div MSECOND + 1
\* Outcomes of a push on the source pad.
FlowErrors == {"Error", "Flushing"}
FlowResults == {"Ok"} \cup FlowErrors

VARIABLES
    settings,      \* Settings behind the settings mutex
    queue,         \* State.queue behind the state mutex
    settingsLock,  \* holder of the settings mutex, or Free
    stateLock,     \* holder of the state mutex, or Free
    pc,            \* position of each streaming thread in sink_chain
    buffer,        \* the buffer each streaming thread's call was given
    idx,           \* the flush loop's position in the queue
    retval,        \* what the thread's last sink_chain call returned
    downstream,    \* buffers pushed on the source pad, in push order
    cpc,           \* position of the controller thread
    creq,          \* the controller's current property access
    cret,          \* what the controller's last property() returned
    arrivals,      \* number of sink_chain calls made so far
    accesses,      \* number of property accesses made so far
    obs,           \* per call: what it saw when it held both locks
    pushed,        \* per call: the buffers it pushed and each push's result
    lockSeq,       \* buffers in the order their calls locked the state mutex
    opened,        \* buffers whose call saw open = true
    events,        \* per sink_event call: what it saw, forwarded and returned
    twin           \* two elements fed the same calls, but for the debug values

vars == <<settings, queue, settingsLock, stateLock, pc, buffer, idx, retval,
          downstream, cpc, creq, cret, arrivals, accesses, obs, pushed,
          lockSeq, opened, events, twin>>

\* The variables of the element and its threads.
element_vars ==
    <<settings, queue, settingsLock, stateLock, pc, buffer, idx, retval,
      downstream, cpc, creq, cret, arrivals, accesses, obs, pushed, lockSeq,
      opened, events>>

\* ----------------------------------------------------------- pure helpers
NoBuffer == [id |-> 0, pts |-> None, dts |-> None, delta |-> FALSE]
NoObs == [seen |-> FALSE, open |-> FALSE, max_history |-> 0, queue |-> << >>]
NoReq == [op |-> "none", name |-> "none", value |-> FALSE]

\* The field of Settings a property name stands for.
Field(name) ==
    CASE name = "open" -> "open"
      [] name = "max-history" -> "max_history"
      [] name = "debug" -> "debug"

\* An element as one value: its settings, its queue, whether a panic has
\* poisoned its mutexes, whether the process was brought down, and what its
\* last call pushed, returned and traced.
NoOutput == [pushes |-> << >>, ret |-> "none", traces |-> 0]
NewElement ==
    [settings |-> [open |-> DEFAULT_OPEN, max_history |-> DEFAULT_MAX_HISTORY,
                   debug |-> DEFAULT_DEBUG],
     queue |-> << >>, poisoned |-> FALSE, aborted |-> FALSE,
     out |-> NoOutput]

\* The multiplication inside ClockTime::from_mseconds leaves the u64 range.
Overflows(ms) == ms * MSECOND >= ClockRange
\* ClockTime::from_mseconds where it returns: the product, wrapped to the
\* width of a u64 by a build whose multiplication is unchecked.
from_mseconds(ms) == (ms * MSECOND) % ClockRange

\* buffer.pts().or_else(|| buffer.dts()).unwrap_or(ClockTime::ZERO)
Timestamp(b) ==
    IF b.pts # None THEN b.pts[1]
    ELSE IF b.dts # None THEN b.dts[1]
    ELSE ZERO

\* !buffer.flags().contains(BufferFlags::DELTA_UNIT)
IsKeyframe(b) == ~b.delta

StoredBuffer(b) ==
    [buffer |-> b.id, timestamp |-> Timestamp(b), is_keyframe |-> IsKeyframe(b)]

\* The search for the first keyframe: Some(position) or None.
start_index(q) ==
    IF \E i \in 1..Len(q) : q[i].is_keyframe
    THEN Some(CHOOSE i \in 1..Len(q) :
                 /\ q[i].is_keyframe
                 /\ \A j \in 1..(i - 1) : ~q[j].is_keyframe)
    ELSE None

\* Mutant of FlushStart: the dump always starts at the head of the queue.
FlushStartFromHead(q) == 1

\* Mutant of FlushStart: without a keyframe nothing is dumped.
FlushStartSkipAll(q) ==
    IF start_index(q) # None THEN start_index(q)[1] ELSE Len(q) + 1

\* Mutant of FlushStart: the search runs backwards, to the newest keyframe.
FlushStartNewest(q) ==
    IF \E i \in 1..Len(q) : q[i].is_keyframe
    THEN CHOOSE i \in 1..Len(q) :
            /\ q[i].is_keyframe
            /\ \A j \in (i + 1)..Len(q) : ~q[j].is_keyframe
    ELSE 1

\* start_index.unwrap_or_else(|| 0), as a 1-based position.
FlushStart(q) == IF start_index(q) # None THEN start_index(q)[1] ELSE 1

\* Mutant of Prune: the age test is >= and the guard current_ts > front is
\* missing, so a buffer can prune itself.
RECURSIVE PruneInclusive(_, _, _)
PruneInclusive(q, current_ts, max_history) ==
    IF /\ q # << >>
       /\ (current_ts - Head(q).timestamp) >= max_history
    THEN PruneInclusive(Tail(q), current_ts, max_history)
    ELSE q

\* Mutant of Prune: an `if` instead of the `while`, at most one pop per call.
PruneOnce(q, current_ts, max_history) ==
    IF /\ q # << >>
       /\ current_ts > Head(q).timestamp
       /\ (current_ts - Head(q).timestamp) > max_history
    THEN Tail(q)
    ELSE q

\* Mutant of Prune: the age is the absolute difference of the timestamps, so
\* an entry newer than the arriving buffer can be pruned too.
RECURSIVE PruneAbsDiff(_, _, _)
PruneAbsDiff(q, current_ts, max_history) ==
    IF /\ q # << >>
       /\ current_ts # Head(q).timestamp
       /\ (IF current_ts > Head(q).timestamp
           THEN current_ts - Head(q).timestamp
           ELSE Head(q).timestamp - current_ts) > max_history
    THEN PruneAbsDiff(Tail(q), current_ts, max_history)
    ELSE q

\* The pruning loop: pop the front while it is older than max_history.
RECURSIVE Prune(_, _, _)
Prune(q, current_ts, max_history) ==
    IF /\ q # << >>
       /\ current_ts > Head(q).timestamp
       /\ (current_ts - Head(q).timestamp) > max_history
    THEN Prune(Tail(q), current_ts, max_history)
    ELSE q

\* ------------------------------------------------------------------- Init
Init ==
    /\ settings = [open |-> DEFAULT_OPEN,
                   max_history |-> DEFAULT_MAX_HISTORY,
                   debug |-> DEFAULT_DEBUG]
    /\ queue = << >>
    /\ settingsLock = Free
    /\ stateLock = Free
    /\ pc = [t \in Producers |-> "idle"]
    /\ buffer = [t \in Producers |-> NoBuffer]
    /\ idx = [t \in Producers |-> 0]
    /\ retval = [t \in Producers |-> "none"]
    /\ downstream = << >>
    /\ cpc = "idle"
    /\ creq = NoReq
    /\ cret = << >>
    /\ arrivals = 0
    /\ accesses = 0
    /\ obs = [t \in Producers |-> NoObs]
    /\ pushed = [t \in Producers |-> << >>]
    /\ lockSeq = << >>
    /\ opened = {}
    /\ events = << >>
    /\ twin = [a |-> NewElement, b |-> NewElement,
               frames |-> 0, accesses |-> 0, events |-> 0]

\* ------------------------------------------------------------- sink_chain
\* The pad's chain function is called with a buffer.
chain_call(t, b, limit) ==
    /\ pc[t] \in {"idle", "done"}
    /\ arrivals < limit
    /\ arrivals' = arrivals + 1
    /\ buffer' = [buffer EXCEPT ![t] = [id |-> arrivals + 1, pts |-> b.pts,
                                        dts |-> b.dts, delta |-> b.delta]]
    /\ pc' = [pc EXCEPT ![t] = "lock_settings"]
    /\ retval' = [retval EXCEPT ![t] = "none"]
    /\ obs' = [obs EXCEPT ![t] = NoObs]
    /\ pushed' = [pushed EXCEPT ![t] = << >>]
    /\ idx' = [idx EXCEPT ![t] = 0]
    /\ UNCHANGED <<twin, events, settings, queue, settingsLock, stateLock, downstream, cpc,
                   creq, cret, accesses, lockSeq, opened>>

\* let settings = self.settings.lock().unwrap();
chain_lock_settings(t) ==
    /\ pc[t] = "lock_settings"
    /\ settingsLock = Free
    /\ settingsLock' = t
    /\ pc' = [pc EXCEPT ![t] = "lock_state"]
    /\ UNCHANGED <<twin, events, settings, queue, stateLock, buffer, idx, retval, downstream,
                   cpc, creq, cret, arrivals, accesses, obs, pushed, lockSeq,
                   opened>>

\* let mut state = self.state.lock().unwrap();
chain_lock_state(t) ==
    /\ pc[t] = "lock_state"
    /\ stateLock = Free
    /\ stateLock' = t
    /\ pc' = [pc EXCEPT ![t] = "locked"]
    /\ lockSeq' = Append(lockSeq, buffer[t].id)
    /\ UNCHANGED <<twin, events, settings, queue, settingsLock, buffer, idx, retval,
                   downstream, cpc, creq, cret, arrivals, accesses, obs, pushed,
                   opened>>

Observe(t) ==
    [seen |-> TRUE, open |-> settings.open,
     max_history |-> settings.max_history, queue |-> queue]

\* Mutant of chain_closed: push_front instead of push_back.
chain_closed_front(t) ==
    /\ pc[t] = "locked"
    /\ ~settings.open
    /\ queue' = Prune(<<StoredBuffer(buffer[t])>> \o queue,
                      Timestamp(buffer[t]),
                      from_mseconds(settings.max_history))
    /\ settingsLock' = Free
    /\ stateLock' = Free
    /\ retval' = [retval EXCEPT ![t] = "Ok"]
    /\ pc' = [pc EXCEPT ![t] = "done"]
    /\ obs' = [obs EXCEPT ![t] = Observe(t)]
    /\ UNCHANGED <<twin, events, settings, buffer, idx, downstream, cpc, creq, cret, arrivals,
                   accesses, pushed, lockSeq, opened>>

\* The else branch: store the buffer, prune, return Ok (both guards dropped).
chain_closed(t) ==
    /\ pc[t] = "locked"
    /\ ~settings.open
    /\ queue' = Prune(Append(queue, StoredBuffer(buffer[t])),
                      Timestamp(buffer[t]),
                      from_mseconds(settings.max_history))
    /\ settingsLock' = Free
    /\ stateLock' = Free
    /\ retval' = [retval EXCEPT ![t] = "Ok"]
    /\ pc' = [pc EXCEPT ![t] = "done"]
    /\ obs' = [obs EXCEPT ![t] = Observe(t)]
    /\ UNCHANGED <<twin, events, settings, buffer, idx, downstream, cpc, creq, cret, arrivals,
                   accesses, pushed, lockSeq, opened>>

\* settings.open with an empty queue: drop(state); drop(settings).
chain_open_empty(t) ==
    /\ pc[t] = "locked"
    /\ settings.open
    /\ queue = << >>
    /\ settingsLock' = Free
    /\ stateLock' = Free
    /\ pc' = [pc EXCEPT ![t] = "push_live"]
    /\ obs' = [obs EXCEPT ![t] = Observe(t)]
    /\ opened' = opened \cup {buffer[t].id}
    /\ UNCHANGED <<twin, events, settings, queue, buffer, idx, retval, downstream, cpc, creq,
                   cret, arrivals, accesses, pushed, lockSeq>>

\* settings.open with a non-empty queue: find where the dump starts.
chain_flush_begin(t) ==
    /\ pc[t] = "locked"
    /\ settings.open
    /\ queue # << >>
    /\ idx' = [idx EXCEPT ![t] = FlushStart(queue)]
    /\ pc' = [pc EXCEPT ![t] = "flush"]
    /\ obs' = [obs EXCEPT ![t] = Observe(t)]
    /\ opened' = opened \cup {buffer[t].id}
    /\ UNCHANGED <<twin, events, settings, queue, settingsLock, stateLock, buffer, retval,
                   downstream, cpc, creq, cret, arrivals, accesses, pushed,
                   lockSeq>>

\* Mutant of chain_flush_push: a failed push is logged and the loop goes on.
chain_flush_push_on(t, r) ==
    /\ pc[t] = "flush"
    /\ idx[t] <= Len(queue)
    /\ downstream' = Append(downstream, queue[idx[t]].buffer)
    /\ pushed' = [pushed EXCEPT ![t] =
                      Append(@, [buffer |-> queue[idx[t]].buffer, result |-> r])]
    /\ idx' = [idx EXCEPT ![t] = @ + 1]
    /\ UNCHANGED <<twin, events, queue, settingsLock, stateLock, retval, pc>>
    /\ UNCHANGED <<twin, events, settings, buffer, cpc, creq, cret, arrivals, accesses, obs,
                   lockSeq, opened>>

\* Mutant of chain_flush_push: the error return leaves the queue as it is.
chain_flush_push_keep(t, r) ==
    /\ pc[t] = "flush"
    /\ idx[t] <= Len(queue)
    /\ downstream' = Append(downstream, queue[idx[t]].buffer)
    /\ pushed' = [pushed EXCEPT ![t] =
                      Append(@, [buffer |-> queue[idx[t]].buffer, result |-> r])]
    /\ IF r = "Ok"
       THEN /\ idx' = [idx EXCEPT ![t] = @ + 1]
            /\ UNCHANGED <<twin, events, queue, settingsLock, stateLock, retval, pc>>
       ELSE /\ settingsLock' = Free
            /\ stateLock' = Free
            /\ retval' = [retval EXCEPT ![t] = r]
            /\ pc' = [pc EXCEPT ![t] = "done"]
            /\ UNCHANGED <<twin, events, idx, queue>>
    /\ UNCHANGED <<twin, events, settings, buffer, cpc, creq, cret, arrivals, accesses, obs,
                   lockSeq, opened>>

\* Mutant of chain_flush_push: the error return leaves both mutexes locked.
chain_flush_push_locked(t, r) ==
    /\ pc[t] = "flush"
    /\ idx[t] <= Len(queue)
    /\ downstream' = Append(downstream, queue[idx[t]].buffer)
    /\ pushed' = [pushed EXCEPT ![t] =
                      Append(@, [buffer |-> queue[idx[t]].buffer, result |-> r])]
    /\ IF r = "Ok"
       THEN /\ idx' = [idx EXCEPT ![t] = @ + 1]
            /\ UNCHANGED <<twin, events, queue, retval, pc>>
       ELSE /\ queue' = << >>
            /\ retval' = [retval EXCEPT ![t] = r]
            /\ pc' = [pc EXCEPT ![t] = "done"]
            /\ UNCHANGED idx
    /\ UNCHANGED <<twin, events, settings, settingsLock, stateLock, buffer, cpc, creq, cret,
                   arrivals, accesses, obs, lockSeq, opened>>

\* One iteration of the dump loop: push queue[i]; on Err clear and return it.
chain_flush_push(t, r) ==
    /\ pc[t] = "flush"
    /\ idx[t] <= Len(queue)
    /\ downstream' = Append(downstream, queue[idx[t]].buffer)
    /\ pushed' = [pushed EXCEPT ![t] =
                      Append(@, [buffer |-> queue[idx[t]].buffer, result |-> r])]
    /\ IF r = "Ok"
       THEN /\ idx' = [idx EXCEPT ![t] = @ + 1]
            /\ UNCHANGED <<twin, events, queue, settingsLock, stateLock, retval, pc>>
       ELSE /\ queue' = << >>
            /\ settingsLock' = Free
            /\ stateLock' = Free
            /\ retval' = [retval EXCEPT ![t] = r]
            /\ pc' = [pc EXCEPT ![t] = "done"]
            /\ UNCHANGED idx
    /\ UNCHANGED <<twin, events, settings, buffer, cpc, creq, cret, arrivals, accesses, obs,
                   lockSeq, opened>>

\* Mutant of chain_flush_end: the queue is not cleared after the dump.
chain_flush_end_keep(t) ==
    /\ pc[t] = "flush"
    /\ idx[t] > Len(queue)
    /\ settingsLock' = Free
    /\ stateLock' = Free
    /\ pc' = [pc EXCEPT ![t] = "push_live"]
    /\ UNCHANGED <<twin, events, settings, queue, buffer, idx, retval, downstream, cpc, creq,
                   cret, arrivals, accesses, obs, pushed, lockSeq, opened>>

\* The loop is over: state.queue.clear(); drop(state); drop(settings).
chain_flush_end(t) ==
    /\ pc[t] = "flush"
    /\ idx[t] > Len(queue)
    /\ queue' = << >>
    /\ settingsLock' = Free
    /\ stateLock' = Free
    /\ pc' = [pc EXCEPT ![t] = "push_live"]
    /\ UNCHANGED <<twin, events, settings, buffer, idx, retval, downstream, cpc, creq, cret,
                   arrivals, accesses, obs, pushed, lockSeq, opened>>

\* Mutant of chain_push_live: the result of the live push is dropped and the
\* call returns Ok.
chain_push_live_ok(t, r) ==
    /\ pc[t] = "push_live"
    /\ downstream' = Append(downstream, buffer[t].id)
    /\ pushed' = [pushed EXCEPT ![t] =
                      Append(@, [buffer |-> buffer[t].id, result |-> r])]
    /\ retval' = [retval EXCEPT ![t] = "Ok"]
    /\ pc' = [pc EXCEPT ![t] = "done"]
    /\ UNCHANGED <<twin, events, settings, queue, settingsLock, stateLock, buffer, idx, cpc,
                   creq, cret, arrivals, accesses, obs, lockSeq, opened>>

\* self.srcpad.push(buffer): its result is the call's result.
chain_push_live(t, r) ==
    /\ pc[t] = "push_live"
    /\ downstream' = Append(downstream, buffer[t].id)
    /\ pushed' = [pushed EXCEPT ![t] =
                      Append(@, [buffer |-> buffer[t].id, result |-> r])]
    /\ retval' = [retval EXCEPT ![t] = r]
    /\ pc' = [pc EXCEPT ![t] = "done"]
    /\ UNCHANGED <<twin, events, settings, queue, settingsLock, stateLock, buffer, idx, cpc,
                   creq, cret, arrivals, accesses, obs, lockSeq, opened>>

\* from_mseconds panics (a checked multiplication, or an overflow check of
\* the build) after the buffer was stored: the unwinding drops both guards
\* and poisons both mutexes, and catch_panic_pad_function returns the
\* chain function's fallback, Err(FlowError::Error).
chain_closed_panic(t) ==
    /\ pc[t] = "locked"
    /\ ~settings.open
    /\ Overflows(settings.max_history)
    /\ queue' = Append(queue, StoredBuffer(buffer[t]))
    /\ settingsLock' = Poisoned
    /\ stateLock' = Poisoned
    /\ retval' = [retval EXCEPT ![t] = "Error"]
    /\ pc' = [pc EXCEPT ![t] = "done"]
    /\ obs' = [obs EXCEPT ![t] = Observe(t)]
    /\ UNCHANGED <<twin, events, settings, buffer, idx, downstream, cpc, creq, cret,
                   arrivals, accesses, pushed, lockSeq, opened>>

\* A panic has unwound out of sink_chain: the mutexes are poisoned and the
\* element remembers that it panicked.
panicked == stateLock = Poisoned

\* A call after a panic: self.settings.lock().unwrap() panics on the poisoned
\* mutex, and catch_panic_pad_function returns the fallback again.
chain_panicked(t) ==
    /\ pc[t] = "lock_settings"
    /\ settingsLock = Poisoned
    /\ retval' = [retval EXCEPT ![t] = "Error"]
    /\ pc' = [pc EXCEPT ![t] = "done"]
    /\ UNCHANGED <<twin, events, settings, queue, settingsLock, stateLock, buffer,
                   idx, downstream, cpc, creq, cret, arrivals, accesses, obs,
                   pushed, lockSeq, opened>>

\* What sink_chain does besides, once max-history is large enough to
\* overflow.
sink_chain_panic(t) ==
    \/ chain_closed_panic(t)
    \/ chain_panicked(t)

sink_chain(t, bufs, limit) ==
    \/ \E b \in bufs : chain_call(t, b, limit)
    \/ chain_lock_settings(t)
    \/ chain_lock_state(t)
    \/ chain_closed(t)
    \/ chain_open_empty(t)
    \/ chain_flush_begin(t)
    \/ \E r \in FlowResults : chain_flush_push(t, r)
    \/ chain_flush_end(t)
    \/ \E r \in FlowResults : chain_push_live(t, r)

\* ------------------------------------------------ set_property / property
Requests ==
    {[op |-> "set", name |-> "open", value |-> v] : v \in BOOLEAN}
    \cup {[op |-> "set", name |-> "max-history", value |-> v] :
             v \in MaxHistoryValues}
    \cup {[op |-> "set", name |-> "debug", value |-> v] : v \in BOOLEAN}
    \cup {[op |-> "get", name |-> n, value |-> FALSE] :
             n \in {"open", "max-history", "debug"}}

\* The controller calls set_property or property.
control_call(req, limit) ==
    /\ cpc = "idle"
    /\ accesses < limit
    /\ accesses' = accesses + 1
    /\ creq' = req
    /\ cpc' = "lock_settings"
    /\ UNCHANGED <<twin, events, settings, queue, settingsLock, stateLock, pc, buffer, idx,
                   retval, downstream, cret, arrivals, obs, pushed, lockSeq,
                   opened>>

\* self.settings.lock().unwrap() in set_property and in property.
control_lock_settings ==
    /\ cpc = "lock_settings"
    /\ settingsLock = Free
    /\ settingsLock' = Controller
    /\ cpc' = "locked"
    /\ UNCHANGED <<twin, events, settings, queue, stateLock, pc, buffer, idx, retval,
                   downstream, creq, cret, arrivals, accesses, obs, pushed,
                   lockSeq, opened>>

\* Mutant of set_property: setting open to true dumps the queue at once.
set_property_flush ==
    /\ cpc = "locked"
    /\ creq.op = "set"
    /\ settings' = CASE creq.name = "open" ->
                          [settings EXCEPT !.open = creq.value]
                     [] creq.name = "max-history" ->
                          [settings EXCEPT !.max_history = creq.value]
                     [] creq.name = "debug" ->
                          [settings EXCEPT !.debug = creq.value]
    /\ IF creq.name = "open" /\ creq.value /\ stateLock = Free
       THEN /\ queue' = << >>
            /\ downstream' = downstream \o
                                 [i \in 1..Len(queue) |-> queue[i].buffer]
       ELSE UNCHANGED <<queue, downstream>>
    /\ settingsLock' = Free
    /\ cpc' = "idle"
    /\ creq' = NoReq
    /\ UNCHANGED <<twin, events, stateLock, pc, buffer, idx, retval, cret, arrivals,
                   accesses, obs, pushed, lockSeq, opened>>

\* The match of set_property: write the named field, drop the guard.
set_property ==
    /\ cpc = "locked"
    /\ creq.op = "set"
    /\ settings' = CASE creq.name = "open" ->
                          [settings EXCEPT !.open = creq.value]
                     [] creq.name = "max-history" ->
                          [settings EXCEPT !.max_history = creq.value]
                     [] creq.name = "debug" ->
                          [settings EXCEPT !.debug = creq.value]
    /\ settingsLock' = Free
    /\ cpc' = "idle"
    /\ creq' = NoReq
    /\ UNCHANGED <<twin, events, queue, stateLock, pc, buffer, idx, retval, downstream, cret,
                   arrivals, accesses, obs, pushed, lockSeq, opened>>

\* The match of property: read the named field, drop the guard.
property ==
    /\ cpc = "locked"
    /\ creq.op = "get"
    /\ cret' = CASE creq.name = "open" -> <<settings.open>>
                 [] creq.name = "max-history" -> <<settings.max_history>>
                 [] creq.name = "debug" -> <<settings.debug>>
    /\ settingsLock' = Free
    /\ cpc' = "idle"
    /\ creq' = NoReq
    /\ UNCHANGED <<twin, events, settings, queue, stateLock, pc, buffer, idx, retval,
                   downstream, arrivals, accesses, obs, pushed, lockSeq,
                   opened>>

\* self.settings.lock().unwrap() on the poisoned mutex: the panic leaves
\* set_property / property, which nothing catches, and the process aborts.
control_panic ==
    /\ cpc = "lock_settings"
    /\ settingsLock = Poisoned
    /\ cpc' = "aborted"
    /\ pc' = [t \in Producers |-> "aborted"]
    /\ UNCHANGED <<twin, events, settings, queue, settingsLock, stateLock, buffer,
                   idx, retval, downstream, creq, cret, arrivals, accesses,
                   obs, pushed, lockSeq, opened>>

control(reqs, limit) ==
    \/ \E req \in reqs : control_call(req, limit)
    \/ control_lock_settings
    \/ set_property
    \/ property

\* ------------------------------------------------------------- sink_event
\* What a sink_event call saw: the number of buffers pushed before it and the
\* buffers held in the queue.
Seen ==
    [after |-> Len(downstream),
     held |-> {queue[i].buffer : i \in 1..Len(queue)},
     open |-> settings.open]

\* self.srcpad.push_event(event): the event is pushed on the source pad and
\* the push's result r is returned.
sink_event(r, limit) ==
    /\ cpc # "aborted"
    /\ ~panicked
    /\ Len(events) < limit
    /\ events' = Append(events, [seen |-> Seen, forwarded |-> TRUE,
                                 result |-> r, ret |-> r])
    /\ UNCHANGED <<twin, settings, queue, settingsLock, stateLock, pc, buffer, idx,
                   retval, downstream, cpc, creq, cret, arrivals, accesses,
                   obs, pushed, lockSeq, opened>>

\* The event function after a panic: catch_panic_pad_function returns the
\* fallback, false, and sink_event is not run.
sink_event_panicked(limit) ==
    /\ cpc # "aborted"
    /\ panicked
    /\ Len(events) < limit
    /\ events' = Append(events, [seen |-> Seen, forwarded |-> FALSE,
                                 result |-> FALSE, ret |-> FALSE])
    /\ UNCHANGED <<twin, settings, queue, settingsLock, stateLock, pc, buffer, idx,
                   retval, downstream, cpc, creq, cret, arrivals, accesses,
                   obs, pushed, lockSeq, opened>>

\* The accesses of a controller that sets a max-history too large for
\* ClockTime, opens the valve, and reads max-history back.
OverflowRequests ==
    {[op |-> "set", name |-> "max-history", value |-> OverflowMs],
     [op |-> "set", name |-> "open", value |-> TRUE],
     [op |-> "get", name |-> "max-history", value |-> FALSE]}

\* The accesses that matter to the backlog: open, max-history, and one read.
BacklogRequests ==
    {r \in Requests : r.name # "debug" /\ (r.op = "get" => r.name = "open")}
\* The accesses that matter to the threads: open, and one read.
OpenRequests == {r \in Requests : r.name = "open"}

\* ------------------------------------------------- two elements side by side
\* The results of the pushes of one call: push number `at` returns err and
\* the pushes before it return Ok; with at = 0 every push returns Ok.
PushOutcomes ==
    {[at |-> 0, err |-> "Ok"]}
    \cup {[at |-> k, err |-> e] : k \in 1..MaxFrames, e \in FlowErrors}
PushResult(o, k) == IF o.at = k THEN o.err ELSE "Ok"

\* Mutant of chain_function: with debug on, the buffers are traced but not
\* pushed.
chain_function_traced(el, b, o, checked) ==
    IF el.poisoned
    THEN [el EXCEPT !.out = [pushes |-> << >>, ret |-> "Error", traces |-> 0]]
    ELSE IF el.settings.open
    THEN LET first == IF el.queue = << >> THEN 1 ELSE FlushStart(el.queue)
             dump == SubSeq(el.queue, first, Len(el.queue))
             failed == o.at \in 1..Len(dump)
             n == IF failed THEN o.at ELSE Len(dump)
         IN [el EXCEPT
               !.queue = << >>,
               !.out = [pushes |-> IF el.settings.debug THEN << >>
                                    ELSE [i \in 1..n |-> dump[i].buffer]
                                         \o (IF failed THEN << >>
                                                        ELSE <<b.id>>),
                        ret |-> IF failed THEN o.err
                                ELSE PushResult(o, Len(dump) + 1),
                        traces |-> IF el.settings.debug THEN 1 + n ELSE 0]]
    ELSE LET stored == Append(el.queue, StoredBuffer(b))
             traced == IF el.settings.debug THEN 1 ELSE 0
         IN IF checked /\ Overflows(el.settings.max_history)
            THEN [el EXCEPT
                    !.queue = stored,
                    !.poisoned = TRUE,
                    !.out = [pushes |-> << >>, ret |-> "Error",
                             traces |-> traced]]
            ELSE [el EXCEPT
                    !.queue = Prune(stored, Timestamp(b),
                                    from_mseconds(el.settings.max_history)),
                    !.out = [pushes |-> << >>, ret |-> "Ok",
                             traces |-> traced]]

\* The pad's chain function run to its end on element el, with no other
\* thread in between: sink_chain on buffer b under push results o, behind
\* catch_panic_pad_function; `checked` says whether the build's
\* from_mseconds panics on overflow or wraps.  A trace is written on entry
\* and per dumped buffer when debug is on.
chain_function(el, b, o, checked) ==
    IF el.poisoned
    THEN [el EXCEPT !.out = [pushes |-> << >>, ret |-> "Error", traces |-> 0]]
    ELSE IF el.settings.open
    THEN LET first == IF el.queue = << >> THEN 1 ELSE FlushStart(el.queue)
             dump == SubSeq(el.queue, first, Len(el.queue))
             failed == o.at \in 1..Len(dump)
             n == IF failed THEN o.at ELSE Len(dump)
         IN [el EXCEPT
               !.queue = << >>,
               !.out = [pushes |-> [i \in 1..n |-> dump[i].buffer]
                                    \o (IF failed THEN << >> ELSE <<b.id>>),
                        ret |-> IF failed THEN o.err
                                ELSE PushResult(o, Len(dump) + 1),
                        traces |-> IF el.settings.debug THEN 1 + n ELSE 0]]
    ELSE LET stored == Append(el.queue, StoredBuffer(b))
             traced == IF el.settings.debug THEN 1 ELSE 0
         IN IF checked /\ Overflows(el.settings.max_history)
            THEN [el EXCEPT
                    !.queue = stored,
                    !.poisoned = TRUE,
                    !.out = [pushes |-> << >>, ret |-> "Error",
                             traces |-> traced]]
            ELSE [el EXCEPT
                    !.queue = Prune(stored, Timestamp(b),
                                    from_mseconds(el.settings.max_history)),
                    !.out = [pushes |-> << >>, ret |-> "Ok",
                             traces |-> traced]]

\* The pad's event function run on element el: sink_event pushes the event
\* and returns the push's result r, or the fallback after a panic.
event_function(el, r) ==
    [el EXCEPT !.out = [pushes |-> << >>,
                        ret |-> IF ~el.poisoned /\ r THEN "true" ELSE "false",
                        traces |-> 0]]

\* set_property run on element el: the named setting is written, or the
\* lock of the poisoned mutex brings the process down.
set_element(el, name, v) ==
    IF el.poisoned
    THEN [el EXCEPT !.aborted = TRUE,
                    !.out = [pushes |-> << >>, ret |-> "abort", traces |-> 0]]
    ELSE [el EXCEPT !.settings[Field(name)] = v,
                    !.out = [pushes |-> << >>, ret |-> "unit", traces |-> 0]]

\* Both elements are given the same buffer, with the same push results.  A
\* push result is drawn only for a push that can be made (none while closed,
\* at most the queue and the live buffer while open), and the build's answer
\* to an overflow only where from_mseconds is run on an overflowing value.
twin_chain(b, o, checked) ==
    /\ ~twin.a.aborted
    /\ twin.frames < MaxFrames
    /\ o.at <= (IF twin.a.settings.open /\ ~twin.a.poisoned
                THEN Len(twin.a.queue) + 1 ELSE 0)
    /\ ~checked => /\ ~twin.a.settings.open
                   /\ ~twin.a.poisoned
                   /\ Overflows(twin.a.settings.max_history)
    /\ LET buf == [id |-> twin.frames + 1, pts |-> b.pts, dts |-> b.dts,
                   delta |-> b.delta]
       IN twin' = [twin EXCEPT !.a = chain_function(@, buf, o, checked),
                               !.b = chain_function(@, buf, o, checked),
                               !.frames = @ + 1]
    /\ UNCHANGED element_vars

\* Both elements are given the same event, with the same push result.
twin_event(r) ==
    /\ ~twin.a.aborted
    /\ twin.events < MaxEvents
    /\ twin' = [twin EXCEPT !.a = event_function(@, r),
                            !.b = event_function(@, r),
                            !.events = @ + 1]
    /\ UNCHANGED element_vars

\* Both elements are set the same open or max-history.
twin_set(name, v) ==
    /\ ~twin.a.aborted
    /\ twin.accesses < MaxControl
    /\ twin' = [twin EXCEPT !.a = set_element(@, name, v),
                            !.b = set_element(@, name, v),
                            !.accesses = @ + 1]
    /\ UNCHANGED element_vars

\* Each element is set a debug value of its own.
twin_set_debug(va, vb) ==
    /\ ~twin.a.aborted
    /\ twin.accesses < MaxControl
    /\ twin' = [twin EXCEPT !.a = set_element(@, "debug", va),
                            !.b = set_element(@, "debug", vb),
                            !.accesses = @ + 1]
    /\ UNCHANGED element_vars

\* --------------------------------------------------------- specifications
\* Two streaming threads calling the chain function concurrently, and the
\* controller toggling open.
Next ==
    \/ \E t \in Producers : sink_chain(t, PlainBuffers, MaxFrames)
    \/ control(OpenRequests, MaxControl)
Spec == Init /\ [][Next]_vars

\* The same, one buffer and one property access longer.
NextLong ==
    \/ \E t \in Producers : sink_chain(t, PlainBuffers, MaxFrames + 1)
    \/ control(OpenRequests, MaxControl + 1)
SpecLong == Init /\ [][NextLong]_vars

\* One streaming thread (the pad's stream is serialized) delivering
\* timestamped buffers, and the controller changing open and max-history.
NextSingle ==
    \/ sink_chain(SingleProducer, Buffers, MaxFrames)
    \/ control(BacklogRequests, MaxControl)
SpecSingle == Init /\ [][NextSingle]_vars

\* The keyframes among the buffers.
Keyframes == {b \in Buffers : ~b.delta}

\* One streaming thread delivering timestamped keyframes, and the controller
\* making every access: set and get of open, max-history and debug.
NextSettings ==
    \/ sink_chain(SingleProducer, Keyframes, MaxFrames)
    \/ control(Requests, MaxControl)
SpecSettings == Init /\ [][NextSettings]_vars

\* One streaming thread delivering timestamped buffers and events, and the
\* controller setting a max-history whose tick count overflows.
NextOverflow ==
    \/ sink_chain(SingleProducer, Buffers, MaxFrames)
    \/ sink_chain_panic(SingleProducer)
    \/ control(OverflowRequests, MaxControl)
    \/ control_panic
    \/ \E r \in BOOLEAN : sink_event(r, MaxEvents)
    \/ sink_event_panicked(MaxEvents)
SpecOverflow == Init /\ [][NextOverflow]_vars

\* Two elements given the same buffers, events, open and max-history values
\* and push results, and debug values of their own.
NextTwin ==
    \/ \E b \in Buffers, o \in PushOutcomes, checked \in BOOLEAN :
          twin_chain(b, o, checked)
    \/ \E r \in BOOLEAN : twin_event(r)
    \/ \E v \in BOOLEAN : twin_set("open", v)
    \/ \E v \in {ZERO, OverflowMs} : twin_set("max-history", v)
    \/ \E va, vb \in BOOLEAN : twin_set_debug(va, vb)
SpecTwin == Init /\ [][NextTwin]_vars

\* ------------------------------------------------------------- properties
Range(f) == {f[i] : i \in DOMAIN f}
\* The buffers a call has pushed so far, in order.
PushedIds(t) == [i \in 1..Len(pushed[t]) |-> pushed[t][i].buffer]
\* k is the position of the first (oldest) keyframe of q.
FirstKeyframeAt(q, k) ==
    /\ k \in 1..Len(q)
    /\ q[k].is_keyframe
    /\ \A j \in 1..(k - 1) : ~q[j].is_keyframe
\* The call of thread t found open = true and a backlog to flush.
Flushed(t) == obs[t].seen /\ obs[t].open /\ obs[t].queue # << >>
\* The call of thread t found open = false.
Buffered(t) == obs[t].seen /\ ~obs[t].open

\* C1 -- Flush from first keyframe: a call that sees open = true and a backlog
\* whose first keyframe is at position k, and whose pushes all succeed, has
\* pushed exactly the entries k..end in backlog order and then its own
\* buffer; the entries before k were never pushed; the backlog is empty when
\* the call has returned.
C1_FlushFromFirstKeyframe ==
    \A t \in Producers : \A k \in 1..Len(obs[t].queue) :
        ( /\ pc[t] = "done"
          /\ Flushed(t)
          /\ retval[t] = "Ok"
          /\ FirstKeyframeAt(obs[t].queue, k) )
        => LET q == obs[t].queue
               n == Len(q) - k + 1
           IN /\ PushedIds(t) = [i \in 1..(n + 1) |->
                                    IF i <= n THEN q[k + i - 1].buffer
                                              ELSE buffer[t].id]
              /\ \A i \in 1..Len(pushed[t]) : pushed[t][i].result = "Ok"
              /\ \A i \in 1..(k - 1) : q[i].buffer \notin Range(downstream)
              /\ queue = << >>

\* A returned flush whose backlog had a delta unit ahead of its first keyframe.
C1_Witness ==
    \E t \in Producers :
        /\ pc[t] = "done"
        /\ Flushed(t)
        /\ retval[t] = "Ok"
        /\ ~obs[t].queue[1].is_keyframe
        /\ \E k \in 2..Len(obs[t].queue) : obs[t].queue[k].is_keyframe

\* C2 -- Downstream failure aborts flush: when the push of the j-th buffer of
\* a flush fails, the call has returned that same error, has pushed nothing
\* after it, has never pushed its own (live) buffer, and the backlog is empty.
C2_FailureAbortsFlush ==
    \A t \in Producers : \A j \in 1..Len(pushed[t]) :
        ( /\ pushed[t][j].result # "Ok"
          /\ pushed[t][j].buffer # buffer[t].id )
        => /\ pc[t] = "done"
           /\ retval[t] = pushed[t][j].result
           /\ Len(pushed[t]) = j
           /\ \A i \in 1..(j - 1) : pushed[t][i].result = "Ok"
           /\ buffer[t].id \notin Range(downstream)
           /\ queue = << >>

\* A flush of two or more buffers that failed on its second push.
C2_Witness ==
    \E t \in Producers :
        /\ Flushed(t)
        /\ Len(pushed[t]) = 2
        /\ pushed[t][2].result \in FlowErrors
        /\ Len(obs[t].queue) >= 2

\* The suffix of q that starts after its first n entries.
DropFirst(q, n) == SubSeq(q, n + 1, Len(q))
\* The age of entry e measured from the timestamp of the call's own buffer.
Age(t, e) == Timestamp(buffer[t]) - e.timestamp

\* C3 -- Buffering when closed: a call that sees open = false pushes nothing
\* downstream, returns Ok, and leaves its buffer as the tail of the backlog;
\* the backlog afterwards is the backlog before plus that buffer, less some
\* entries pruned from the head, and the buffer itself is never pruned.
C3_BufferingWhenClosed ==
    \A t \in Producers :
        (pc[t] = "done" /\ Buffered(t))
        => /\ pushed[t] = << >>
           /\ buffer[t].id \notin Range(downstream)
           /\ retval[t] = "Ok"
           /\ queue # << >>
           /\ queue[Len(queue)] = StoredBuffer(buffer[t])
           /\ \E n \in 0..Len(obs[t].queue) :
                 /\ queue = DropFirst(Append(obs[t].queue,
                                             StoredBuffer(buffer[t])), n)
                 /\ Len(queue) = Len(obs[t].queue) + 1 - n

\* A closed-mode call that has returned after pruning the whole older backlog.
C3_Witness ==
    \E t \in Producers :
        /\ pc[t] = "done"
        /\ Buffered(t)
        /\ Len(obs[t].queue) >= 1
        /\ Len(queue) = 1

\* C4 as stated -- Pruning bound for any timestamps: after a closed-mode
\* arrival every backlog entry is no older than max_history, measured from
\* the newest timestamp, or is the newest entry.
C4_PruningBoundAnyTimestamps ==
    \A t \in Producers :
        (pc[t] = "done" /\ Buffered(t))
        => \A i \in 1..Len(queue) :
              \/ Age(t, queue[i]) <= obs[t].max_history * MSECOND
              \/ i = Len(queue)

\* C4 as amended -- Pruning bound: after a closed-mode arrival the head of
\* the backlog, and every entry whose timestamp is not below the head's, is
\* no older than max_history measured from the newest timestamp (so every
\* entry is, when the backlog's timestamps do not decrease).
C4_PruningBound ==
    \A t \in Producers :
        (pc[t] = "done" /\ Buffered(t))
        => \A i \in 1..Len(queue) :
              queue[i].timestamp >= queue[1].timestamp
              => Age(t, queue[i]) <= obs[t].max_history * MSECOND

\* A closed-mode call that pruned the head and kept an older entry with it.
C4_Witness ==
    \E t \in Producers :
        /\ pc[t] = "done"
        /\ Buffered(t)
        /\ Len(queue) = 2
        /\ Len(obs[t].queue) = 2
        /\ queue[1].timestamp < queue[2].timestamp

\* C5 -- Order preservation: with a single producer, buffers are numbered in
\* arrival order and the buffers pushed downstream are in strictly
\* increasing arrival order: none before an earlier one, none twice.
C5_OrderPreserved ==
    \A i, j \in 1..Len(downstream) :
        i < j => downstream[i] < downstream[j]

\* Two buffered buffers and the live one, all pushed, after open was toggled.
C5_Witness ==
    /\ Len(downstream) = 3
    /\ \E t \in Producers : Flushed(t) /\ Len(obs[t].queue) = 2

\* C10 -- Backlog stays empty while open: once a call that saw open = true has
\* left its critical section (and when it has returned) the backlog is empty;
\* no buffer of a call that saw open = true is ever in the backlog; and any
\* step that puts a buffer into the backlog is taken while open is false.
C10_EmptyAfterOpenCall ==
    /\ \A t \in Producers :
          (pc[t] \in {"push_live", "done"} /\ obs[t].seen /\ obs[t].open)
          => queue = << >>
    /\ \A i \in 1..Len(queue) : queue[i].buffer \notin opened

C10_GrowsOnlyWhenClosed ==
    (queue' # queue /\ queue' # << >>)
    => /\ ~settings.open
       /\ \E t \in Producers : pc[t] = "locked" /\ pc'[t] = "done"
                               /\ ~obs'[t].open

C10_BacklogEmptyWhileOpen ==
    []C10_EmptyAfterOpenCall /\ [][C10_GrowsOnlyWhenClosed]_vars

\* A call that flushed has returned, open has since been set to false, and
\* the backlog is still empty.
C10_Witness ==
    \E t \in Producers :
        /\ pc[t] = "done"
        /\ Flushed(t)
        /\ ~settings.open
        /\ queue = << >>

\* The position of buffer b in the sequence of buffers f (0 when absent).
PositionIn(f, b) ==
    IF \E i \in 1..Len(f) : f[i] = b
    THEN CHOOSE i \in 1..Len(f) : f[i] = b
    ELSE 0
\* The buffers of f occupy consecutive places of downstream, in f's order.
ContiguousDownstream(f) ==
    \E p \in 0..(Len(downstream) - Len(f)) :
        \A i \in 1..Len(f) : downstream[p + i] = f[i]

\* C6 -- Flush atomicity: while a call is flushing, the backlog is the one it
\* found (no other call appends to it), no other call is inside the critical
\* section, and the buffers the flush has pushed so far are consecutive
\* downstream (no other call's buffer lies between two of them).
C6_FlushAtomicity ==
    \A t \in Producers :
        pc[t] = "flush"
        => /\ queue = obs[t].queue
           /\ \A u \in Producers \ {t} : pc[u] \notin {"locked", "flush"}
           /\ ContiguousDownstream(PushedIds(t))

\* C7 -- Concurrent arrival order: the live buffers of any two calls that saw
\* open = true appear downstream in the order in which the two calls locked
\* the state mutex.
C7_LiveOrderIsLockOrder ==
    \A a, b \in opened :
        ( /\ PositionIn(downstream, a) > 0
          /\ PositionIn(downstream, b) > 0
          /\ PositionIn(lockSeq, a) < PositionIn(lockSeq, b) )
        => PositionIn(downstream, a) < PositionIn(downstream, b)

\* C8 -- Setter is not blocked by a flush: whenever the controller is waiting
\* for the settings mutex while a call is in the middle of a flush (it has
\* pushed a buffer and has more to push), it can take the mutex.
C8_SetterNotBlockedByFlush ==
    ( /\ cpc = "lock_settings"
      /\ \E t \in Producers : /\ pc[t] = "flush"
                               /\ Len(pushed[t]) >= 1
                               /\ idx[t] <= Len(queue) )
    => ENABLED control_lock_settings

\* The steps of the calls in progress (everything but the start of a call).
Progress ==
    \/ \E t \in Producers :
          \/ chain_lock_settings(t)
          \/ chain_lock_state(t)
          \/ chain_closed(t)
          \/ chain_open_empty(t)
          \/ chain_flush_begin(t)
          \/ \E r \in FlowResults : chain_flush_push(t, r)
          \/ chain_flush_end(t)
          \/ \E r \in FlowResults : chain_push_live(t, r)
    \/ control_lock_settings
    \/ set_property
    \/ property
InProgress ==
    \/ \E t \in Producers : pc[t] \notin {"idle", "done"}
    \/ cpc # "idle"

\* C9 -- Lock ordering and deadlock freedom: a streaming thread holds the
\* state mutex only while it holds the settings mutex and waits for the
\* state mutex only while holding the settings mutex; the controller never
\* takes the state mutex; a thread that has not locked yet, has dropped its
\* guards or has returned (with Ok or with an error) holds neither mutex;
\* and whenever some call is in progress, some call in progress can step.
C9_LockOrderNoDeadlock ==
    /\ \A t \in Producers :
          /\ stateLock = t => settingsLock = t
          /\ pc[t] = "lock_state" => (settingsLock = t /\ stateLock # t)
          /\ pc[t] \in {"locked", "flush"}
                => (settingsLock = t /\ stateLock = t)
          /\ pc[t] \in {"idle", "lock_settings", "push_live", "done"}
                => (settingsLock # t /\ stateLock # t)
    /\ stateLock # Controller
    /\ cpc \in {"idle", "lock_settings"} => settingsLock # Controller
    /\ cpc = "locked" => settingsLock = Controller
    /\ InProgress => ENABLED Progress

\* One thread is flushing, the other thread and the controller both wait for
\* the settings mutex.
C9_Witness ==
    \E t \in Producers, u \in Producers :
        /\ pc[t] = "flush"
        /\ Len(pushed[t]) >= 1
        /\ pc[u] = "lock_settings"
        /\ cpc = "lock_settings"

\* C11 -- Pass-through when open and empty: a call that sees open = true and an
\* empty backlog pushes exactly one buffer, its own, leaves the backlog empty
\* and returns the result of that push, Ok or the same error.
C11_PassThrough ==
    \A t \in Producers :
        (pc[t] = "done" /\ obs[t].seen /\ obs[t].open /\ obs[t].queue = << >>)
        => /\ pushed[t] = <<[buffer |-> buffer[t].id, result |-> retval[t]]>>
           /\ Cardinality({i \in 1..Len(downstream) :
                              downstream[i] = buffer[t].id}) = 1
           /\ retval[t] \in FlowResults
           /\ queue = << >>

\* A pass-through call whose push failed has returned.
C11_Witness ==
    \E t \in Producers :
        /\ pc[t] = "done"
        /\ obs[t].seen /\ obs[t].open /\ obs[t].queue = << >>
        /\ retval[t] \in FlowErrors

\* q holds no keyframe.
NoKeyframe(q) == \A i \in 1..Len(q) : ~q[i].is_keyframe

\* C12 -- No-keyframe degraded flush: a call that sees open = true and a
\* non-empty backlog without a keyframe starts pushing at the head of the
\* backlog; when every push succeeds it has pushed the whole backlog in
\* order, then its own buffer, and the backlog is empty; it returns an error
\* only when a push returned that error.
C12_DegradedFlush ==
    \A t \in Producers :
        (pc[t] = "done" /\ Flushed(t) /\ NoKeyframe(obs[t].queue))
        => LET q == obs[t].queue
           IN /\ pushed[t] # << >>
              /\ pushed[t][1].buffer = q[1].buffer
              /\ retval[t] = pushed[t][Len(pushed[t])].result
              /\ retval[t] = "Ok"
                    => /\ PushedIds(t) = [i \in 1..(Len(q) + 1) |->
                                             IF i <= Len(q) THEN q[i].buffer
                                                            ELSE buffer[t].id]
                       /\ queue = << >>

\* A returned Ok flush of a backlog of two or more delta units.
C12_Witness ==
    \E t \in Producers :
        /\ pc[t] = "done"
        /\ Flushed(t)
        /\ NoKeyframe(obs[t].queue)
        /\ Len(obs[t].queue) >= 2
        /\ retval[t] = "Ok"

\* k is the position of the last (newest) keyframe of q.
LastKeyframeAt(q, k) ==
    /\ k \in 1..Len(q)
    /\ q[k].is_keyframe
    /\ \A j \in (k + 1)..Len(q) : ~q[j].is_keyframe

\* C17 as stated -- Release from the most recent decodable point: the first
\* buffer a flush pushes is the newest keyframe of the backlog it found.
C17_FlushFromNewestKeyframe ==
    \A t \in Producers : \A k \in 1..Len(obs[t].queue) :
        (Flushed(t) /\ pushed[t] # << >> /\ LastKeyframeAt(obs[t].queue, k))
        => pushed[t][1].buffer = obs[t].queue[k].buffer

\* C17 -- Release from the earliest decodable point: the first buffer a flush
\* pushes is the oldest keyframe of the backlog it found, also when the
\* backlog holds newer keyframes.
C17_FlushFromOldestKeyframe ==
    \A t \in Producers : \A k \in 1..Len(obs[t].queue) :
        (Flushed(t) /\ pushed[t] # << >> /\ FirstKeyframeAt(obs[t].queue, k))
        => pushed[t][1].buffer = obs[t].queue[k].buffer

\* A flush of a backlog with two keyframes has pushed its first buffer.
C17_Witness ==
    \E t \in Producers :
        /\ Flushed(t)
        /\ pushed[t] # << >>
        /\ \E i, j \in 1..Len(obs[t].queue) :
              /\ i < j
              /\ obs[t].queue[i].is_keyframe
              /\ obs[t].queue[j].is_keyframe

\* The number of entries the closed call of thread t pruned.
Pruned(t) == Len(obs[t].queue) + 1 - Len(queue)

\* C18 -- Conservative pruning on non-advancing timestamps: a closed arrival
\* with timestamp ts removes entries only from the head, every removed entry
\* has a timestamp below ts (so no entry with a timestamp >= ts, and no entry
\* behind one, is removed), the remaining entries keep their order, and when
\* ts is not above the head's timestamp nothing is removed and the backlog
\* grows by one.
C18_ConservativePruning ==
    \A t \in Producers :
        (pc[t] = "done" /\ Buffered(t))
        => LET old == obs[t].queue
               ts == Timestamp(buffer[t])
           IN /\ Pruned(t) \in 0..Len(old)
              /\ queue = DropFirst(Append(old, StoredBuffer(buffer[t])),
                                   Pruned(t))
              /\ \A i \in 1..Pruned(t) : old[i].timestamp < ts
              /\ (old # << >> /\ ts <= old[1].timestamp)
                    => Len(queue) = Len(old) + 1

\* A stalled source: the third arrival with the same timestamp, under a
\* max-history of 0, has left all three in the backlog.
C18_Witness ==
    \E t \in Producers :
        /\ pc[t] = "done"
        /\ Buffered(t)
        /\ obs[t].max_history = 0
        /\ Len(queue) = MaxFrames
        /\ \A i \in 1..Len(queue) : queue[i].timestamp = Timestamp(buffer[t])

\* The buffers whose call took the closed branch.
BufferedIds ==
    {j \in Range(lockSeq) :
        /\ j \notin opened
        /\ ~\E t \in Producers : buffer[t].id = j /\ ~obs[t].seen}
\* The buffers of the backlog.
QueueIds == {queue[i].buffer : i \in 1..Len(queue)}
\* A call is between the first push of its flush and the clear.
Flushing == \E t \in Producers : pc[t] = "flush"
\* The open calls whose clear of the backlog has happened.
Cleared ==
    {o \in opened : ~\E t \in Producers : pc[t] = "flush" /\ buffer[t].id = o}
\* The buffers stored since the backlog was last cleared.
SinceClear == {j \in BufferedIds : \A o \in Cleared : j > o}

\* The backlog is a suffix, in arrival order, of the buffers stored since the
\* last clear, and holds no buffer that a returned call pushed.
C20_Suffix ==
    /\ \A i \in 1..(Len(queue) - 1) : queue[i].buffer < queue[i + 1].buffer
    /\ QueueIds \subseteq SinceClear
    /\ \A a \in QueueIds : \A b \in SinceClear : b > a => b \in QueueIds
    /\ SinceClear # {} => queue # << >>
    /\ ~Flushing => QueueIds \cap Range(downstream) = {}

\* A step changes the backlog by a closed call's append at the tail with
\* removals from the head, or by a flush's clear of the whole backlog.
C20_TailInHeadOut ==
    queue' # queue
    => \/ \E t \in Producers :
             /\ pc[t] = "locked"
             /\ ~settings.open
             /\ \E n \in 0..Len(queue) :
                   queue' = DropFirst(Append(queue, StoredBuffer(buffer[t])), n)
       \/ /\ queue' = << >>
          /\ \E t \in Producers : pc[t] = "flush"

\* C20 -- Backlog shape invariant: at all times the backlog is a contiguous
\* suffix, in arrival order, of the buffers that arrived under open = false
\* since a flush last cleared it; buffers enter only at the tail by closed
\* arrivals and leave only from the head by pruning or all at once by a
\* flush; a buffer that was pushed is not in the backlog once the pushing
\* call has returned.
C20_BacklogShape == []C20_Suffix /\ [][C20_TailInHeadOut]_vars

\* A flush has cleared a backlog that held a buffer, and a later closed
\* arrival is stored.
C20_Witness ==
    /\ ~Flushing
    /\ queue # << >>
    /\ \E o \in Cleared : \E j \in BufferedIds : j < o

\* C14 -- Control events bypass the backlog: every sink_event call has pushed
\* its event on the source pad at once, whatever open and the queue were, and
\* has returned the result of that push; an event that came while the valve
\* was closed went downstream ahead of the buffers held in the queue.
C14_EventsBypassBacklog ==
    \A i \in 1..Len(events) :
        /\ events[i].forwarded
        /\ events[i].ret = events[i].result
        /\ ~events[i].seen.open
              => \A k \in 1..events[i].seen.after :
                    downstream[k] \notin events[i].seen.held

\* C15 -- Closed-mode intake always succeeds: a call that saw open = false
\* has returned Ok, whatever the buffer's timestamp and whatever value
\* max-history holds, and no call has brought the process down.
C15_ClosedIntakeSucceeds ==
    /\ cpc # "aborted"
    /\ \A t \in Producers :
          (pc[t] = "done" /\ Buffered(t)) => retval[t] = "Ok"

\* A freshly constructed element has open = false, max-history = 5000 ms and
\* debug = false.
C16_Defaults ==
    settings = [open |-> FALSE, max_history |-> 5000, debug |-> FALSE]

\* A set_property call writes its value to the named setting and leaves the
\* other two; a property call returns the named setting as it is; no other
\* step, of the controller or of a streaming thread, changes a setting.
C16_SetThenGet ==
    /\ (cpc = "locked" /\ cpc' = "idle" /\ creq.op = "set")
          => settings' = [settings EXCEPT ![Field(creq.name)] = creq.value]
    /\ (cpc = "locked" /\ cpc' = "idle" /\ creq.op = "get")
          => cret' = <<settings[Field(creq.name)]>>
    /\ ~(cpc = "locked" /\ cpc' = "idle" /\ creq.op = "set")
          => settings' = settings

\* A set_property or property call does not bring the process down.
C16_Returns == cpc # "aborted"

\* C16 -- Settings round-trip and defaults: the element starts with
\* open = false, max-history = 5000, debug = false; a set of a setting
\* followed by a get of it returns the value set, for every value, and a set
\* leaves the other two settings unchanged, also with buffers processed
\* between and around the calls.
C16_SettingsRoundTrip ==
    C16_Defaults /\ [][C16_SetThenGet]_vars /\ []C16_Returns

\* A step of the controller, with what a set_property call may change: the
\* named setting, and nothing of the queue or of what was pushed.
C13_ControllerStep ==
    (cpc' # cpc \/ settings' # settings)
    => /\ queue' = queue
       /\ downstream' = downstream
       /\ pushed' = pushed
       /\ events' = events
       /\ \A f \in {"open", "max_history", "debug"} :
             settings'[f] # settings[f]
             => /\ cpc = "locked" /\ creq.op = "set"
                /\ f = Field(creq.name)
                /\ settings'[f] = creq.value

\* The queue shrinks and buffers are pushed only by a step of a sink_chain
\* call, and a push only by a call that saw open = true.
C13_OnlyInsideCall ==
    /\ (queue' # queue \/ downstream' # downstream)
          => \E t \in Producers :
                /\ pc[t] \in {"locked", "flush", "push_live"}
                /\ (pc'[t] # pc[t] \/ idx'[t] # idx[t])
    /\ downstream' # downstream
          => \E t \in Producers :
                pc[t] \in {"flush", "push_live"} /\ buffer[t].id \in opened

\* C13 -- Setting changes are not retroactive: a set changes only the named
\* setting, never the backlog, and pushes nothing; the backlog is flushed
\* only inside a sink_chain call that saw open = true, so toggling open with
\* no buffer arriving leaves the backlog as it was.
C13_NotRetroactive == [][C13_ControllerStep /\ C13_OnlyInsideCall]_vars

\* open was set to true while the backlog held a buffer, no call is in
\* progress, and the backlog is still there.
C13_Witness ==
    /\ settings.open
    /\ queue # << >>
    /\ downstream = << >>
    /\ cpc = "idle"
    /\ \A t \in Producers : pc[t] \in {"idle", "done"}

\* C19 -- Debug flag does not interfere: two elements given the same buffers,
\* events, open and max-history values and the same push results, and any
\* debug values, have after every call pushed the same buffers in the same
\* order, returned the same value, and hold the same backlog.
C19_DebugDoesNotInterfere ==
    /\ twin.a.out.pushes = twin.b.out.pushes
    /\ twin.a.out.ret = twin.b.out.ret
    /\ twin.a.queue = twin.b.queue
    /\ twin.a.aborted = twin.b.aborted

\* A flush of two or more buffers, traced by one element and not by the
\* other.
C19_Witness ==
    /\ twin.a.settings.debug # twin.b.settings.debug
    /\ twin.a.out.traces # twin.b.out.traces
    /\ Len(twin.a.out.pushes) >= 2

\* The push results a returned call of thread t was given, as one outcome.
Outcome(t) ==
    IF \E i \in 1..Len(pushed[t]) : pushed[t][i].result # "Ok"
    THEN LET i == CHOOSE i \in 1..Len(pushed[t]) : pushed[t][i].result # "Ok"
         IN [at |-> i, err |-> pushed[t][i].result]
    ELSE [at |-> 0, err |-> "Ok"]

\* chain_function computes what the steps of a sink_chain call arrive at: a
\* returned call of the single streaming thread has left the queue, pushed
\* the buffers and returned the value that chain_function gives for the
\* settings and the queue the call saw.
ChainFunctionAgrees ==
    (pc[SingleProducer] = "done" /\ obs[SingleProducer].seen)
    => \E checked \in BOOLEAN :
          LET t == SingleProducer
              el == [NewElement EXCEPT
                        !.settings.open = obs[t].open,
                        !.settings.max_history = obs[t].max_history,
                        !.queue = obs[t].queue]
              r == chain_function(el, buffer[t], Outcome(t), checked)
          IN /\ r.queue = queue
             /\ r.out.ret = retval[t]
             /\ r.out.pushes = PushedIds(t)

====
